---- MODULE Spec2Model ----
(***************************************************************************)
(* AzureService (src/src/services/azureService.ts): the credential         *)
(* lifecycle of the management and the logs token, the retry wrapper       *)
(* executeWithTokenRefresh, disconnect and the connection flow.            *)
(*                                                                         *)
(* The service runs on one JavaScript event loop: the code between two     *)
(* awaits of an external result (an authentication session, a remote call, *)
(* a timer, a user's pick) is one atomic step.  Each action below is one   *)
(* such step of one task p; task[p].pc names the await it is suspended at. *)
(***************************************************************************)
EXTENDS Naturals, Sequences, FiniteSets, TLC

\* ------------------------------------------------------------------ bounds
NCallers == 2
MaxTicks == 2
MaxScopes == 3
MaxCalls == 3

\* ------------------------------------------------------------- the values
NULL == [null |-> TRUE]
NoTenant == "null"
Tenants == {"A", "B"}
Callers == 1..NCallers
Command == 0
Procs == Callers \cup {Command}

ManagementScope == "https://management.azure.com/.default"
LogsScope == "https://api.loganalytics.io/.default"
TenantScope(tenantId) == "VSCODE_TENANT:" \o tenantId

ExpiresInMs == 60 * 60 * 1000
RefreshAfterMs == 30 * 60 * 1000
\* The clock advances in steps of the refresh window, so that a token is seen
\* fresh, past refreshAfterTimestamp and past expiresOnTimestamp.
TickMs == RefreshAfterMs

ManagedCredential == [kind |-> "managed"]
StaticCredential(bearer) == [kind |-> "static", token |-> bearer]

\* service: the fields of the AzureService instance.  task[p]: the task p
\* (a connect command, a credential callback of a client, a wrapped call),
\* the await it is suspended at and its locals.  calls: the calls the
\* clients and views have made so far.
VARIABLES now, service, task, calls

vars == <<now, service, task, calls>>

\* ------------------------------------------------------------------ tasks
NoResult == [none |-> TRUE]
\* A result is a record: a token, or Returned(x) for any other value.
Value(v) == [ok |-> TRUE, value |-> v]
Returned(x) == Value([returned |-> x])
Failure(message) == [ok |-> FALSE, error |-> message]

IdleTask ==
    [op |-> "none", pc |-> "idle", site |-> "none", now |-> 0,
     tenantId |-> NoTenant, tokenType |-> "none", scopes |-> <<>>,
     made |-> {}, opCount |-> 0, outcomes |-> <<>>, found |-> "none",
     cancelled |-> FALSE,
     availableTenants |-> {}, selectedTenantId |-> NoTenant,
     tokenResponse |-> 0,
     subscriptions |-> {}, selectedSub |-> NULL,
     result |-> NoResult]

Pair(s, t) == [svc |-> s, t |-> t]
\* The call ends with result r; the locals of the frames that ended are
\* dropped.
Done(t, r) ==
    [t EXCEPT !.pc = "idle", !.result = r, !.scopes = <<>>, !.site = "none",
              !.availableTenants = {}, !.tokenResponse = 0,
              !.subscriptions = {}]

\* ------------------------------------------------------------ error messages
\* A message is the sequence of its characters, so that String.includes is a
\* search and not a table.
\* a rejection of getSession by the provider: "User did not consent"
AuthError ==
    <<"U", "s", "e", "r", " ", "d", "i", "d", " ", "n", "o", "t", " ", "c",
      "o", "n", "s", "e", "n", "t">>

\* line 101: "Failed to get authentication session"
NoSessionError ==
    <<"F", "a", "i", "l", "e", "d", " ", "t", "o", " ", "g", "e", "t", " ",
      "a", "u", "t", "h", "e", "n", "t", "i", "c", "a", "t", "i", "o", "n",
      " ", "s", "e", "s", "s", "i", "o", "n">>

\* line 184: "Failed to get fresh authentication session"
NoFreshSessionError ==
    <<"F", "a", "i", "l", "e", "d", " ", "t", "o", " ", "g", "e", "t", " ",
      "f", "r", "e", "s", "h", " ", "a", "u", "t", "h", "e", "n", "t", "i",
      "c", "a", "t", "i", "o", "n", " ", "s", "e", "s", "s", "i", "o", "n">>

\* line 336: "Failed to get logs authentication session"
NoLogsSessionError ==
    <<"F", "a", "i", "l", "e", "d", " ", "t", "o", " ", "g", "e", "t", " ",
      "l", "o", "g", "s", " ", "a", "u", "t", "h", "e", "n", "t", "i", "c",
      "a", "t", "i", "o", "n", " ", "s", "e", "s", "s", "i", "o", "n">>

\* line 161: "Management token is null after refresh"
ManagementTokenNullError ==
    <<"M", "a", "n", "a", "g", "e", "m", "e", "n", "t", " ", "t", "o", "k",
      "e", "n", " ", "i", "s", " ", "n", "u", "l", "l", " ", "a", "f", "t",
      "e", "r", " ", "r", "e", "f", "r", "e", "s", "h">>

\* line 165: "Management token expired and refresh failed. Please retry."
ManagementTokenExpiredError ==
    <<"M", "a", "n", "a", "g", "e", "m", "e", "n", "t", " ", "t", "o", "k",
      "e", "n", " ", "e", "x", "p", "i", "r", "e", "d", " ", "a", "n", "d",
      " ", "r", "e", "f", "r", "e", "s", "h", " ", "f", "a", "i", "l", "e",
      "d", ".", " ", "P", "l", "e", "a", "s", "e", " ", "r", "e", "t", "r",
      "y", ".">>

\* line 377: "Logs token is null after refresh"
LogsTokenNullError ==
    <<"L", "o", "g", "s", " ", "t", "o", "k", "e", "n", " ", "i", "s", " ",
      "n", "u", "l", "l", " ", "a", "f", "t", "e", "r", " ", "r", "e", "f",
      "r", "e", "s", "h">>

\* line 381: "Logs token expired and refresh failed. Please retry."
LogsTokenExpiredError ==
    <<"L", "o", "g", "s", " ", "t", "o", "k", "e", "n", " ", "e", "x", "p",
      "i", "r", "e", "d", " ", "a", "n", "d", " ", "r", "e", "f", "r", "e",
      "s", "h", " ", "f", "a", "i", "l", "e", "d", ".", " ", "P", "l", "e",
      "a", "s", "e", " ", "r", "e", "t", "r", "y", ".">>

\* ------------------------------------------------------------ SessionSource
\* vscode.authentication.getSession: a session, nothing (undefined), or a
\* rejection.  A session's accessToken is either the one of the session the
\* caller already holds (the provider hands back its cached session) or one
\* that the service holds nowhere.
NoSession == [kind |-> "none"]
Rejected == [kind |-> "error"]
Session(bearer, scopes) == [accessToken |-> bearer, scopes |-> scopes]
Granted(bearer) == [kind |-> "session", accessToken |-> bearer]

BearerOf(x) == IF x = NULL THEN {} ELSE {x.accessToken}
TokenOf(x) == IF x = NULL THEN {} ELSE {x.token}
CredentialBearers(c) ==
    IF c # NULL /\ c.kind = "static" THEN {c.token} ELSE {}
ClientBearers(c) == IF c = NULL THEN {} ELSE CredentialBearers(c.credential)
ResultBearers(r) ==
    IF r # NoResult /\ r.ok /\ "token" \in DOMAIN r.value
    THEN {r.value.token} ELSE {}

InUse ==
    BearerOf(service.managementSession) \cup BearerOf(service.logsSession)
    \cup TokenOf(service.managementToken) \cup TokenOf(service.logsToken)
    \cup CredentialBearers(service.credential)
    \cup ClientBearers(service.apiManagementClient)
    \cup ClientBearers(service.subscriptionClient)
    \cup BearerOf(service.connection)
    \cup UNION {ResultBearers(task[p].result) : p \in Procs}

FreshBearer == CHOOSE b \in 1..(Cardinality(InUse) + 1) : b \notin InUse

SessionsFor(held) ==
    {Granted(b) : b \in {FreshBearer} \cup BearerOf(held)}

AllResponses(held) == SessionsFor(held) \cup {NoSession, Rejected}

\* ------------------------------------------------------------------- tokens
\* What a getToken call finds in its slot at time n (lines 143-147 and
\* 364-370): nothing, a token before refreshAfterTimestamp, one past it, or
\* one past expiresOnTimestamp.
SlotState(token, n) ==
    IF token = NULL THEN "absent"
    ELSE IF n >= token.expiresOnTimestamp THEN "hard"
         ELSE IF n >= token.refreshAfterTimestamp THEN "soft"
              ELSE "fresh"

\* createTokenFromSession with the two offsets exchanged.
createTokenFromSessionExchanged(session, t) ==
    [token |-> session.accessToken,
     expiresOnTimestamp |-> t + RefreshAfterMs,
     refreshAfterTimestamp |-> t + ExpiresInMs]

createTokenFromSession(session, t) ==
    [token |-> session.accessToken,
     expiresOnTimestamp |-> t + ExpiresInMs,
     refreshAfterTimestamp |-> t + RefreshAfterMs]

ManagementScopes(s) ==
    IF s.currentTenantId # NoTenant
    THEN Append(s.requiredScopes, TenantScope(s.currentTenantId))
    ELSE s.requiredScopes

LogsScopes(tenantId) == <<LogsScope, TenantScope(tenantId)>>

\* recreateAzureClients: both clients are rebuilt around the credential when
\* a connection and a credential exist.
recreateAzureClients(s) ==
    IF s.connection # NULL /\ s.credential # NULL
    THEN [s EXCEPT
            !.apiManagementClient =
                [credential |-> s.credential,
                 subscriptionId |-> s.connection.subscriptionId],
            !.subscriptionClient = [credential |-> s.credential]]
    ELSE s

\* Lines 104-115 and 187-197: the session and the token made from it are
\* stored, the credential becomes the refreshing one, the clients are rebuilt.
StoreManagementSession(s, session, n) ==
    recreateAzureClients(
        [s EXCEPT !.managementSession = session,
                  !.managementToken = createTokenFromSession(session, n),
                  !.credential = ManagedCredential])

\* Lines 339-341.
StoreLogsSession(s, session, tenantId, n) ==
    [s EXCEPT !.logsSession = session,
              !.logsToken = createTokenFromSession(session, n),
              !.currentTenantId = tenantId]

\* ----------------------------------------------------- error classification
\* String.prototype.includes.
includes(message, needle) ==
    \E i \in 1..(Len(message) + 1) :
        /\ i + Len(needle) - 1 <= Len(message)
        /\ SubSeq(message, i, i + Len(needle) - 1) = needle

NeedleEvolved ==
    <<"E", "v", "o", "l", "v", "e", "d", "S", "e", "c", "u", "r", "i", "t",
      "y", "T", "o", "k", "e", "n", "S", "e", "r", "v", "i", "c", "e">>

NeedleExpiry ==
    <<"a", "c", "c", "e", "s", "s", " ", "t", "o", "k", "e", "n", " ", "e",
      "x", "p", "i", "r", "y">>

Needle401 == <<"4", "0", "1">>
Needle403 == <<"4", "0", "3">>

\* Lines 243-246.
IsTokenExpiryError(errorMessage) ==
    \/ includes(errorMessage, NeedleEvolved)
    \/ includes(errorMessage, NeedleExpiry)
    \/ includes(errorMessage, Needle401)
    \/ includes(errorMessage, Needle403)

\* What a remote operation may fail with.
Error401 ==
    <<"4", "0", "1", " ", "U", "n", "a", "u", "t", "h", "o", "r", "i", "z",
      "e", "d">>

Error500 ==
    <<"5", "0", "0", " ", "I", "n", "t", "e", "r", "n", "a", "l", " ", "S",
      "e", "r", "v", "e", "r", " ", "E", "r", "r", "o", "r">>

OperationErrors == {Error401, Error500}
OperationOutcomes == {Returned("ok")} \cup {Failure(m) : m \in OperationErrors}

\* ---------------------------------------------------------- refreshLogsToken
\* Line 259: the operation is invoked once more.
Retry(t) == [t EXCEPT !.pc = "op2", !.opCount = 2, !.scopes = <<>>]

\* refreshLogsToken without its finally block: a failure leaves the flag set.
LogsRefreshFailedFlagKept(s) ==
    [s EXCEPT !.logsToken = NULL, !.logsSession = NULL]

\* Lines 343-350: catch, then finally.
LogsRefreshFailed(s) ==
    [s EXCEPT !.logsToken = NULL, !.logsSession = NULL, !.isRefreshing = FALSE]

\* Lines 339-341, then finally.
LogsRefreshSucceeded(s, session, tenantId, n) ==
    [StoreLogsSession(s, session, tenantId, n) EXCEPT !.isRefreshing = FALSE]

\* Lines 375-384.
getLogsAccessTokenResult(s, t) ==
    IF s.logsToken = NULL THEN Failure(LogsTokenNullError)
    ELSE IF t.now >= s.logsToken.expiresOnTimestamp
         THEN Failure(LogsTokenExpiredError)
         ELSE Value(s.logsToken)

\* Lines 691-701, and the catch of line 703.
ConnectAfterLogsToken(s, t, thrown) ==
    IF thrown # NoResult
    THEN Pair(s, Done(t, Returned("false")))
    ELSE LET cred == [tenantId |-> t.selectedSub.tenantId]
         IN Pair([s EXCEPT !.logsCredential = cred,
                           !.logsClient = [credential |-> cred]],
                 Done(t, Returned("true")))

\* The code that awaits refreshLogsToken, resumed: thrown is the error it
\* threw, NoResult when it returned.
AfterRefreshLogsToken(s, t, thrown) ==
    CASE t.op = "getLogsAccessToken" ->
            Pair(s, Done(t, IF thrown # NoResult THEN thrown
                            ELSE getLogsAccessTokenResult(s, t)))
      [] t.op = "executeWithTokenRefresh" ->
            IF thrown # NoResult THEN Pair(s, Done(t, thrown))
            ELSE Pair(s, Retry(t))
      [] OTHER -> ConnectAfterLogsToken(s, t, thrown)

\* refreshLogsToken without the test of isRefreshing (lines 304-310).
refreshLogsTokenUnguarded(s, t, tenantId) ==
    Pair([s EXCEPT !.isRefreshing = TRUE],
         [t EXCEPT !.pc = "logsSilent", !.tenantId = tenantId,
                   !.scopes = LogsScopes(tenantId),
                   !.made = @ \cup {"logsSilent"}])

\* Lines 303-323: wait for a refresh in flight and return, or raise the guard
\* and ask for a session silently.
refreshLogsToken(s, t, tenantId) ==
    IF s.isRefreshing
    THEN Pair(s, [t EXCEPT !.pc = "logsWait", !.tenantId = tenantId])
    ELSE Pair([s EXCEPT !.isRefreshing = TRUE],
              [t EXCEPT !.pc = "logsSilent", !.tenantId = tenantId,
                        !.scopes = LogsScopes(tenantId),
                        !.made = @ \cup {"logsSilent"}])

\* Lines 325-350, resumed with the silent request's answer.
OnLogsSilent(s, t, resp, n) ==
    IF resp.kind = "error"
    THEN AfterRefreshLogsToken(LogsRefreshFailed(s), t, Failure(AuthError))
    ELSE IF \/ resp.kind = "none"
            \/ /\ s.logsSession # NULL
               /\ resp.accessToken = s.logsSession.accessToken
         THEN Pair(s, [t EXCEPT !.pc = "logsInteractive",
                                !.made = @ \cup {"logsInteractive"}])
         ELSE AfterRefreshLogsToken(
                  LogsRefreshSucceeded(s, Session(resp.accessToken, t.scopes),
                                       t.tenantId, n),
                  t, NoResult)

\* Lines 335-350, resumed with the interactive request's answer.
OnLogsInteractive(s, t, resp, n) ==
    CASE resp.kind = "error" ->
            AfterRefreshLogsToken(LogsRefreshFailed(s), t, Failure(AuthError))
      [] resp.kind = "none" ->
            AfterRefreshLogsToken(LogsRefreshFailed(s), t,
                                  Failure(NoLogsSessionError))
      [] OTHER ->
            AfterRefreshLogsToken(
                LogsRefreshSucceeded(s, Session(resp.accessToken, t.scopes),
                                     t.tenantId, n),
                t, NoResult)

\* Lines 363-373.
getLogsAccessToken(s, t, tenantId, n) ==
    LET t1 == [t EXCEPT !.now = n, !.tenantId = tenantId,
                        !.found = SlotState(s.logsToken, n)]
        needsRefresh ==
            \/ s.logsToken = NULL
            \/ s.currentTenantId # tenantId
            \/ n >= s.logsToken.refreshAfterTimestamp
    IN IF needsRefresh THEN refreshLogsToken(s, t1, tenantId)
       ELSE AfterRefreshLogsToken(s, t1, NoResult)

\* --------------------------------------------------- refreshManagementToken
\* The catch of refreshManagementToken without line 121: the session record
\* outlives the token.
ManagementRefreshFailedSessionKept(s) ==
    [s EXCEPT !.managementToken = NULL, !.isRefreshing = FALSE]

\* Lines 118-125: catch, then finally.
ManagementRefreshFailed(s) ==
    [s EXCEPT !.managementToken = NULL, !.managementSession = NULL,
              !.isRefreshing = FALSE]

\* Lines 104-117, then finally.
ManagementRefreshSucceeded(s, session, n) ==
    [StoreManagementSession(s, session, n) EXCEPT !.isRefreshing = FALSE]

\* Lines 159-168.
getManagementTokenResult(s, t) ==
    IF s.managementToken = NULL THEN Failure(ManagementTokenNullError)
    ELSE IF t.now >= s.managementToken.expiresOnTimestamp
         THEN Failure(ManagementTokenExpiredError)
         ELSE Value(s.managementToken)

\* Lines 494-500: what the credential of the selection flow hands out.
StaticToken(bearer, n) ==
    [token |-> bearer,
     expiresOnTimestamp |-> n + (60 * 60 * 1000),
     refreshAfterTimestamp |-> n + (55 * 60 * 1000)]

\* Lines 171-181: getFreshManagementSession asks for a session.
getFreshManagementSession(s, t) ==
    Pair(s, [t EXCEPT !.pc = "mgmtFresh", !.scopes = ManagementScopes(s),
                      !.made = @ \cup {"mgmtFresh"}])

\* refreshManagementToken without the test of isRefreshing (lines 68-74).
refreshManagementTokenUnguarded(s, t) ==
    Pair([s EXCEPT !.isRefreshing = TRUE],
         [t EXCEPT !.pc = "mgmtSilent", !.scopes = ManagementScopes(s),
                   !.made = @ \cup {"mgmtSilent"}])

\* Lines 66-88: wait for a refresh in flight and return, or raise the guard
\* and ask for a session silently.
refreshManagementToken(s, t) ==
    IF s.isRefreshing
    THEN Pair(s, [t EXCEPT !.pc = "mgmtWait"])
    ELSE Pair([s EXCEPT !.isRefreshing = TRUE],
              [t EXCEPT !.pc = "mgmtSilent", !.scopes = ManagementScopes(s),
                        !.made = @ \cup {"mgmtSilent"}])

RECURSIVE AfterCredentialToken(_, _, _, _)

\* The code that awaits getManagementToken, resumed with its result r.
AfterGetManagementToken(s, t, r, n) ==
    IF t.op = "getManagementToken"
    THEN Pair(s, Done(t, r))
    ELSE AfterCredentialToken(s, [t EXCEPT !.now = 0, !.found = "none"], r, n)

\* getManagementToken refreshing whatever it finds: line 149 without its
\* condition.
getManagementTokenRefreshingAlways(s, t, n) ==
    refreshManagementToken(
        s, [t EXCEPT !.now = n, !.found = SlotState(s.managementToken, n)])

\* getManagementToken refreshing only an absent token: line 147 without
\* the comparison with refreshAfterTimestamp.
getManagementTokenWhenAbsent(s, t, n) ==
    LET t1 == [t EXCEPT !.now = n,
                        !.found = SlotState(s.managementToken, n)]
    IN IF s.managementToken = NULL THEN refreshManagementToken(s, t1)
       ELSE AfterGetManagementToken(s, t1, getManagementTokenResult(s, t1), n)

\* Lines 142-157.
getManagementToken(s, t, n) ==
    LET t1 == [t EXCEPT !.now = n,
                        !.found = SlotState(s.managementToken, n)]
        needsRefresh ==
            \/ s.managementToken = NULL
            \/ n >= s.managementToken.refreshAfterTimestamp
    IN IF needsRefresh THEN refreshManagementToken(s, t1)
       ELSE AfterGetManagementToken(s, t1, getManagementTokenResult(s, t1), n)

\* await this.credential.getToken(...) at the call site `site` of the
\* selection flow: the credential is the refreshing one (lines 53-57) or the
\* fixed one of lines 494-500.
credentialGetToken(s, t, site, n) ==
    IF s.credential.kind = "static"
    THEN AfterCredentialToken(s, [t EXCEPT !.site = site],
                              Value(StaticToken(s.credential.token, n)), n)
    ELSE getManagementToken(s, [t EXCEPT !.site = site], n)

\* Lines 679-689: the connection is stored and the logs token asked for.
StoreConnection(s, t, bearer) ==
    refreshLogsToken(
        [s EXCEPT !.connection =
            [tenantId |-> t.selectedSub.tenantId,
             subscriptionId |-> t.selectedSub.subscriptionId,
             resourceGroupName |-> "rg", serviceName |-> "apim",
             accessToken |-> bearer]],
        [t EXCEPT !.site = "none", !.tokenResponse = 0],
        t.selectedSub.tenantId)

\* Line 684: the access token of the connection is asked of the credential
\* (a TypeError on a null credential is caught at line 703).
ConnectionToken(s, t, n) ==
    IF s.credential = NULL THEN Pair(s, Done(t, Returned("false")))
    ELSE credentialGetToken(s, t, "connection", n)

\* The selection flow resumed after credential.getToken at t.site.
AfterCredentialToken(s, t, r, n) ==
    CASE t.site = "tenants" ->
            \* lines 274-285, 296-300 and 463-466
            IF r.ok
            THEN Pair(s, [t EXCEPT !.pc = "tenantsFetch",
                                   !.tokenResponse = r.value.token])
            ELSE Pair(s, Done(t, Returned("false")))
      [] t.site = "tenantFallback" ->
            \* lines 414-427, 449-452 and 488-491
            IF r.ok
            THEN Pair(s, [t EXCEPT !.pc = "testFetch",
                                   !.tokenResponse = r.value.token])
            ELSE Pair(s, Done(t, Returned("false")))
      [] t.site = "subscriptions" ->
            \* lines 509-525 and 581-585
            IF r.ok
            THEN Pair(s, [t EXCEPT !.pc = "subsFetch",
                                   !.tokenResponse = r.value.token])
            ELSE Pair(s, Done(t, Returned("false")))
      [] t.site = "elsewhere" ->
            \* lines 593-609 and 623-627
            IF r.ok
            THEN Pair(s, [t EXCEPT !.pc = "elsewhereFetch",
                                   !.tokenResponse = r.value.token])
            ELSE Pair(s, [t EXCEPT !.pc = "noSubsChoice"])
      [] t.site = "gateway" ->
            \* lines 716-731 and 752-756
            IF r.ok
            THEN Pair(s, [t EXCEPT !.pc = "gatewayFetch",
                                   !.tokenResponse = r.value.token])
            ELSE ConnectionToken(s, t, n)
      [] OTHER ->
            \* t.site = "connection": lines 679-689 and 703-706
            IF r.ok
            THEN StoreConnection(s, t, r.value.token)
            ELSE Pair(s, Done(t, Returned("false")))

\* The code that awaits getFreshManagementSession, resumed: the fallback of
\* getManagementToken (lines 155-168) or the retry wrapper (lines 252-259).
AfterGetFreshManagementSession(s, t, thrown, n) ==
    IF t.op = "executeWithTokenRefresh"
    THEN IF thrown # NoResult THEN Pair(s, Done(t, thrown))
         ELSE Pair(s, Retry(t))
    ELSE AfterGetManagementToken(
             s, t,
             IF thrown # NoResult THEN thrown
             ELSE getManagementTokenResult(s, t),
             n)

\* Lines 183-198, resumed with the answer of getSession.
OnFreshSession(s, t, resp, n) ==
    CASE resp.kind = "error" ->
            AfterGetFreshManagementSession(s, t, Failure(AuthError), n)
      [] resp.kind = "none" ->
            AfterGetFreshManagementSession(s, t, Failure(NoFreshSessionError), n)
      [] OTHER ->
            AfterGetFreshManagementSession(
                StoreManagementSession(s, Session(resp.accessToken, t.scopes), n),
                t, NoResult, n)

\* refreshManagementToken returned: lines 159-168 of getManagementToken.
ManagementRefreshed(s, t, n) ==
    AfterGetManagementToken(s, t, getManagementTokenResult(s, t), n)

\* refreshManagementToken storing whatever session the silent request
\* returns: line 92 without the comparison of the access tokens.
OnManagementSilentAnySession(s, t, resp, n) ==
    IF resp.kind = "error"
    THEN getFreshManagementSession(ManagementRefreshFailed(s), t)
    ELSE IF resp.kind = "none"
         THEN Pair(s, [t EXCEPT !.pc = "mgmtInteractive",
                                !.made = @ \cup {"mgmtInteractive"}])
         ELSE ManagementRefreshed(
                  ManagementRefreshSucceeded(
                      s, Session(resp.accessToken, t.scopes), n),
                  t, n)

\* Lines 90-126, resumed with the silent request's answer; a failure is
\* caught by getManagementToken (lines 152-156).
OnManagementSilent(s, t, resp, n) ==
    IF resp.kind = "error"
    THEN getFreshManagementSession(ManagementRefreshFailed(s), t)
    ELSE IF \/ resp.kind = "none"
            \/ /\ s.managementSession # NULL
               /\ resp.accessToken = s.managementSession.accessToken
         THEN Pair(s, [t EXCEPT !.pc = "mgmtInteractive",
                                !.made = @ \cup {"mgmtInteractive"}])
         ELSE ManagementRefreshed(
                  ManagementRefreshSucceeded(
                      s, Session(resp.accessToken, t.scopes), n),
                  t, n)

\* Lines 100-126, resumed with the interactive request's answer.
OnManagementInteractive(s, t, resp, n) ==
    IF resp.kind = "session"
    THEN ManagementRefreshed(
             ManagementRefreshSucceeded(
                 s, Session(resp.accessToken, t.scopes), n),
             t, n)
    ELSE getFreshManagementSession(ManagementRefreshFailed(s), t)

\* -------------------------------------------------- executeWithTokenRefresh
\* executeWithTokenRefresh refreshing on every failure: lines 248-259
\* without the test of lines 243-246.
OnOperationRefreshingAlways(s, t, outcome) ==
    LET t1 == [t EXCEPT !.outcomes = Append(@, outcome)]
    IN IF outcome.ok THEN Pair(s, Done(t1, outcome))
       ELSE IF t.tokenType = "management"
            THEN getFreshManagementSession(s, t1)
            ELSE IF s.currentTenantId # NoTenant
                 THEN refreshLogsToken(s, t1, s.currentTenantId)
                 ELSE Pair(s, Retry(t1))

\* Lines 239-264, resumed with the outcome of the first operation().
OnOperation(s, t, outcome) ==
    LET t1 == [t EXCEPT !.outcomes = Append(@, outcome)]
    IN IF outcome.ok THEN Pair(s, Done(t1, outcome))
       ELSE IF IsTokenExpiryError(outcome.error)
            THEN IF t.tokenType = "management"
                 THEN getFreshManagementSession(s, t1)
                 ELSE IF s.currentTenantId # NoTenant
                      THEN refreshLogsToken(s, t1, s.currentTenantId)
                      ELSE Pair(s, Retry(t1))
            ELSE Pair(s, Done(t1, outcome))

\* Line 259 inside a loop: a failed retry is retried, up to a third
\* invocation.
OnRetriedOperationRetrying(s, t, outcome) ==
    LET t1 == [t EXCEPT !.outcomes = Append(@, outcome)]
    IN IF outcome.ok \/ t.opCount >= 3 THEN Pair(s, Done(t1, outcome))
       ELSE Pair(s, [t1 EXCEPT !.opCount = @ + 1])

\* Line 259: the second operation() decides.
OnRetriedOperation(s, t, outcome) ==
    Pair(s, Done([t EXCEPT !.outcomes = Append(@, outcome)], outcome))

\* ----------------------------------------------------------------- disconnect
\* Lines 759-765.
Disconnected(s) ==
    [s EXCEPT !.connection = NULL, !.apiManagementClient = NULL,
              !.subscriptionClient = NULL, !.logsClient = NULL,
              !.credential = NULL]

\* ------------------------------------------------ selectTenantAndSubscription
\* What the remote endpoints and the user may answer.
SubscriptionUniverse ==
    {[subscriptionId |-> "sub-" \o x, tenantId |-> x] : x \in Tenants}
TenantsResponses ==
    {[kind |-> "ok", value |-> ts] : ts \in SUBSET Tenants}
    \cup {[kind |-> "failed"]}
SubscriptionsResponses ==
    {[kind |-> "ok", value |-> subs] : subs \in SUBSET SubscriptionUniverse}
    \cup {[kind |-> "notOk"], [kind |-> "throws"]}
FetchResponses == {"ok", "notOk", "throws"}
ServicesResponses == {"services", "empty", "throws"}
ForcedSessionResponses == {Granted(FreshBearer), NoSession, Rejected}

\* Lines 455-462.
selectTenantAndSubscription(s, t, n) ==
    IF s.credential = NULL THEN Pair(s, Done(t, Returned("false")))
    ELSE credentialGetToken(s, t, "tenants", n)

\* authenticate, lines 44-63, then connectCommand, extension.ts 151-157.
OnAuthenticate(s, t, resp, n) ==
    IF resp.kind = "session"
    THEN LET session == Session(resp.accessToken, t.scopes)
         IN selectTenantAndSubscription(
                [s EXCEPT !.managementSession = session,
                          !.managementToken = createTokenFromSession(session, n),
                          !.credential = ManagedCredential],
                [t EXCEPT !.scopes = <<>>], n)
    ELSE Pair(s, Done(t, Returned("not authenticated")))

\* Lines 287-300 and 463-477.
OnTenantsFetch(s, t, resp) ==
    IF resp.kind = "ok" /\ resp.value # {}
    THEN Pair(s, [t EXCEPT !.pc = "pickTenant", !.availableTenants = resp.value,
                           !.tokenResponse = 0])
    ELSE Pair(s, Done(t, Returned("false")))

\* Lines 479-487 and 387-398: the tenant qualifier is pushed on
\* requiredScopes and a new session is asked for.
OnPickTenant(s, t, choice) ==
    IF choice = NoTenant THEN Pair(s, Done(t, Returned("false")))
    ELSE LET s1 == [s EXCEPT !.requiredScopes = Append(@, TenantScope(choice))]
         IN Pair(s1, [t EXCEPT !.pc = "tenantSession",
                               !.selectedTenantId = choice,
                               !.availableTenants = {},
                               !.scopes = s1.requiredScopes,
                               !.made = @ \cup {"tenantSession"}])

\* Lines 493-525: the credential becomes the fixed tenant-specific token and
\* the subscriptions are fetched with it.
AfterTenantToken(s, t, bearer, n) ==
    credentialGetToken([s EXCEPT !.credential = StaticCredential(bearer)],
                       [t EXCEPT !.scopes = <<>>], "subscriptions", n)

\* Lines 400-418.
OnTenantSession(s, t, resp, n) ==
    IF resp.kind = "session" THEN AfterTenantToken(s, t, resp.accessToken, n)
    ELSE IF s.credential = NULL THEN Pair(s, Done(t, Returned("false")))
         ELSE credentialGetToken(s, [t EXCEPT !.scopes = <<>>],
                                 "tenantFallback", n)

\* Lines 429-452.
OnTestFetch(s, t, resp, n) ==
    CASE resp = "ok" -> AfterTenantToken(s, t, t.tokenResponse, n)
      [] resp = "notOk" ->
            Pair(s, [t EXCEPT !.pc = "tenantSession2", !.tokenResponse = 0,
                              !.scopes = s.requiredScopes,
                              !.made = @ \cup {"tenantSession2"}])
      [] OTHER -> Pair(s, Done(t, Returned("false")))

\* Lines 441-452.
OnTenantSession2(s, t, resp, n) ==
    IF resp.kind = "session" THEN AfterTenantToken(s, t, resp.accessToken, n)
    ELSE Pair(s, Done(t, Returned("false")))

\* Lines 578-640: the subscription client is built; with no subscription the
\* flow looks for subscriptions elsewhere and asks the user, else the user
\* picks a subscription.
AfterSubscriptions(s, t, subs, n) ==
    LET s1 == [s EXCEPT !.subscriptionClient = [credential |-> s.credential]]
        t1 == [t EXCEPT !.subscriptions = subs, !.tokenResponse = 0]
    IN IF subs # {} THEN Pair(s1, [t1 EXCEPT !.pc = "pickSub"])
       ELSE IF s.credential = NULL
            THEN Pair(s1, [t1 EXCEPT !.pc = "noSubsChoice"])
            ELSE credentialGetToken(s1, t1, "elsewhere", n)

\* Lines 527-531, 563-585.
OnSubsFetch(s, t, resp, n) ==
    CASE resp.kind = "ok" -> AfterSubscriptions(s, t, resp.value, n)
      [] resp.kind = "notOk" -> Pair(s, [t EXCEPT !.pc = "subsFallback"])
      [] OTHER -> Pair(s, Done(t, Returned("false")))

\* Lines 539-562, 581-585.
OnSubsFallback(s, t, resp, n) ==
    IF resp.kind = "ok"
    THEN AfterSubscriptions(
             s, t, {sub \in resp.value : sub.tenantId = t.selectedTenantId}, n)
    ELSE Pair(s, Done(t, Returned("false")))

\* Lines 602-627.
OnElsewhereFetch(s, t) ==
    Pair(s, [t EXCEPT !.pc = "noSubsChoice", !.tokenResponse = 0])

\* Lines 629-634 without the restart: whatever the user chooses, the flow
\* returns false.
OnNoSubsChoiceEnding(s, t, choice, n) ==
    Pair(s, Done(t, Returned("false")))

\* Lines 629-634.
OnNoSubsChoice(s, t, choice, n) ==
    IF choice = "Select Different Tenant"
    THEN selectTenantAndSubscription(
             s, [t EXCEPT !.selectedTenantId = NoTenant, !.site = "none"], n)
    ELSE Pair(s, Done(t, Returned("false")))

\* Lines 641-650.
OnPickSub(s, t, choice) ==
    IF choice = NULL THEN Pair(s, Done(t, Returned("false")))
    ELSE Pair([s EXCEPT !.apiManagementClient =
                  [credential |-> s.credential,
                   subscriptionId |-> choice.subscriptionId]],
              [t EXCEPT !.pc = "listServices", !.selectedSub = choice,
                        !.subscriptions = {}])

\* Lines 650-669 and 703-706.
OnListServices(s, t, resp) ==
    IF resp = "services" THEN Pair(s, [t EXCEPT !.pc = "pickApim"])
    ELSE Pair(s, Done(t, Returned("false")))

\* Lines 671-676 and 709-731.
OnPickApim(s, t, picked, n) ==
    IF ~picked THEN Pair(s, Done(t, Returned("false")))
    ELSE IF s.credential = NULL THEN ConnectionToken(s, t, n)
         ELSE credentialGetToken(s, t, "gateway", n)

\* Lines 733-756, then line 679.
OnGatewayFetch(s, t, n) == ConnectionToken(s, t, n)

Init ==
    /\ now = 0
    /\ service =
        [connection |-> NULL, apiManagementClient |-> NULL,
         subscriptionClient |-> NULL, logsClient |-> NULL,
         credential |-> NULL, logsCredential |-> NULL,
         managementToken |-> NULL, logsToken |-> NULL,
         currentTenantId |-> NoTenant, isRefreshing |-> FALSE,
         managementSession |-> NULL, logsSession |-> NULL,
         requiredScopes |-> <<ManagementScope>>]
    /\ task = [p \in Procs |-> IdleTask]
    /\ calls = 0

\* One step of task p: the service and the task after it.
Step(p, r) ==
    /\ service' = r.svc
    /\ task' = [task EXCEPT ![p] = r.t]
    /\ UNCHANGED <<now, calls>>

\* The first step of a call of caller p.
Call(p, r) ==
    /\ calls < MaxCalls
    /\ calls' = calls + 1
    /\ service' = r.svc
    /\ task' = [task EXCEPT ![p] = r.t]
    /\ UNCHANGED now

At(p, pc) == task[p].pc = pc

\* Date.now() moves on.
Tick ==
    /\ now < MaxTicks * TickMs
    /\ now' = now + TickMs
    /\ UNCHANGED <<service, task, calls>>

\* The management client calls its credential in a call that passed the
\* guard of lines 776, 816 or 980, and the credential it was built around is
\* the refreshing one of lines 108-112 and 191-195.
ManagedCredentialHeld ==
    /\ service.connection # NULL
    /\ service.apiManagementClient # NULL
    /\ service.apiManagementClient.credential = ManagedCredential

CallGetManagementToken(p) ==
    /\ p \in Callers
    /\ At(p, "idle")
    /\ ManagedCredentialHeld
    /\ Call(p, getManagementToken(
                   service, [IdleTask EXCEPT !.op = "getManagementToken"], now))

\* The poll of lines 69-71 sees isRefreshing false.
ManagementWaitEnds(p) ==
    /\ At(p, "mgmtWait")
    /\ ~service.isRefreshing
    /\ Step(p, ManagementRefreshed(service, task[p], now))

ManagementSilentReturns(p) ==
    /\ At(p, "mgmtSilent")
    /\ \E resp \in AllResponses(service.managementSession) :
           Step(p, OnManagementSilent(service, task[p], resp, now))

ManagementInteractiveReturns(p) ==
    /\ At(p, "mgmtInteractive")
    /\ \E resp \in AllResponses(service.managementSession) :
           Step(p, OnManagementInteractive(service, task[p], resp, now))

FreshSessionReturns(p) ==
    /\ At(p, "mgmtFresh")
    /\ \E resp \in AllResponses(service.managementSession) :
           Step(p, OnFreshSession(service, task[p], resp, now))

\* The logs client calls the credential of lines 692-696 in a query that
\* passed the guard of line 853.
CallGetLogsAccessToken(p) ==
    /\ p \in Callers
    /\ At(p, "idle")
    /\ service.logsClient # NULL
    /\ service.connection # NULL
    /\ Call(p, getLogsAccessToken(
                   service, [IdleTask EXCEPT !.op = "getLogsAccessToken"],
                   service.logsClient.credential.tenantId, now))

\* The poll of lines 306-308 sees isRefreshing false.
LogsWaitEnds(p) ==
    /\ At(p, "logsWait")
    /\ ~service.isRefreshing
    /\ Step(p, AfterRefreshLogsToken(service, task[p], NoResult))

LogsSilentReturns(p) ==
    /\ At(p, "logsSilent")
    /\ \E resp \in AllResponses(service.logsSession) :
           Step(p, OnLogsSilent(service, task[p], resp, now))

LogsInteractiveReturns(p) ==
    /\ At(p, "logsInteractive")
    /\ \E resp \in AllResponses(service.logsSession) :
           Step(p, OnLogsInteractive(service, task[p], resp, now))

\* getApis and getSubscriptions, lines 775-780 and 815-820: operation() is
\* invoked for the first time.
CallExecuteWithTokenRefresh(p) ==
    /\ p \in Callers
    /\ At(p, "idle")
    /\ service.apiManagementClient # NULL
    /\ service.connection # NULL
    /\ \E tokenType \in {"management", "logs"} :
           Call(p, Pair(service,
                        [IdleTask EXCEPT !.op = "executeWithTokenRefresh",
                                         !.pc = "op1", !.opCount = 1,
                                         !.tokenType = tokenType]))

OperationReturns(p) ==
    /\ At(p, "op1")
    /\ \E outcome \in OperationOutcomes :
           Step(p, OnOperation(service, task[p], outcome))

RetriedOperationReturns(p) ==
    /\ At(p, "op2")
    /\ \E outcome \in OperationOutcomes :
           Step(p, OnRetriedOperation(service, task[p], outcome))

\* A task is inside a refresh when it awaits a session for a slot.
RefreshPcs ==
    {"mgmtSilent", "mgmtInteractive", "mgmtFresh", "logsSilent",
     "logsInteractive"}

\* The options each of these getSession requests is made with: lines 85-88,
\* 94-97, 179-181, 320-323 and 329-332.
SessionOptions(createIfNone, silent, clearSessionPreference) ==
    [createIfNone |-> createIfNone, silent |-> silent,
     clearSessionPreference |-> clearSessionPreference]

RequestOptions ==
    [pc \in RefreshPcs |->
        CASE pc = "mgmtSilent" -> SessionOptions(FALSE, TRUE, FALSE)
          [] pc = "mgmtInteractive" -> SessionOptions(TRUE, FALSE, TRUE)
          [] pc = "mgmtFresh" -> SessionOptions(TRUE, FALSE, FALSE)
          [] pc = "logsSilent" -> SessionOptions(FALSE, TRUE, FALSE)
          [] OTHER -> SessionOptions(TRUE, FALSE, TRUE)]

disconnect ==
    /\ service' = Disconnected(service)
    /\ task' = [p \in Procs |->
                   IF task[p].pc \in RefreshPcs
                   THEN [task[p] EXCEPT !.cancelled = TRUE]
                   ELSE task[p]]
    /\ UNCHANGED <<now, calls>>

\* connectCommand, extension.ts 147-151, and authenticate, lines 37-42.
connectCommand(p) ==
    /\ p = Command
    /\ At(p, "idle")
    /\ Step(p, Pair(service,
                    [IdleTask EXCEPT !.op = "connect", !.pc = "auth",
                                     !.scopes = service.requiredScopes,
                                     !.made = {"auth"}]))

AuthenticateReturns(p) ==
    /\ At(p, "auth")
    /\ \E resp \in AllResponses(service.managementSession) :
           Step(p, OnAuthenticate(service, task[p], resp, now))

TenantsFetchReturns(p) ==
    /\ At(p, "tenantsFetch")
    /\ \E resp \in TenantsResponses :
           Step(p, OnTenantsFetch(service, task[p], resp))

TenantPicked(p) ==
    /\ At(p, "pickTenant")
    /\ Len(service.requiredScopes) < MaxScopes
    /\ \E choice \in task[p].availableTenants \cup {NoTenant} :
           Step(p, OnPickTenant(service, task[p], choice))

TenantSessionReturns(p) ==
    /\ At(p, "tenantSession")
    /\ \E resp \in ForcedSessionResponses :
           Step(p, OnTenantSession(service, task[p], resp, now))

TestFetchReturns(p) ==
    /\ At(p, "testFetch")
    /\ \E resp \in FetchResponses :
           Step(p, OnTestFetch(service, task[p], resp, now))

TenantSession2Returns(p) ==
    /\ At(p, "tenantSession2")
    /\ \E resp \in AllResponses(service.managementSession) :
           Step(p, OnTenantSession2(service, task[p], resp, now))

SubsFetchReturns(p) ==
    /\ At(p, "subsFetch")
    /\ \E resp \in SubscriptionsResponses :
           Step(p, OnSubsFetch(service, task[p], resp, now))

SubsFallbackReturns(p) ==
    /\ At(p, "subsFallback")
    /\ \E resp \in SubscriptionsResponses :
           Step(p, OnSubsFallback(service, task[p], resp, now))

ElsewhereFetchReturns(p) ==
    /\ At(p, "elsewhereFetch")
    /\ Step(p, OnElsewhereFetch(service, task[p]))

NoSubsChoiceMade(p) ==
    /\ At(p, "noSubsChoice")
    /\ \E choice \in {"Select Different Tenant", "Cancel"} :
           Step(p, OnNoSubsChoice(service, task[p], choice, now))

SubPicked(p) ==
    /\ At(p, "pickSub")
    /\ \E choice \in task[p].subscriptions \cup {NULL} :
           Step(p, OnPickSub(service, task[p], choice))

ListServicesReturns(p) ==
    /\ At(p, "listServices")
    /\ \E resp \in ServicesResponses :
           Step(p, OnListServices(service, task[p], resp))

ApimPicked(p) ==
    /\ At(p, "pickApim")
    /\ \E picked \in BOOLEAN :
           Step(p, OnPickApim(service, task[p], picked, now))

GatewayFetchReturns(p) ==
    /\ At(p, "gatewayFetch")
    /\ Step(p, OnGatewayFetch(service, task[p], now))

\* ------------------------------------------------------- the unwrapped calls
\* getModelsFromLogs, lines 858-884 (getBackendsFromLogs, getAnalyticsSummary,
\* getLogs and getUsageTrend have its shape): the outcome of
\* logsClient.queryResource; a failure is logged and an empty list returned.
OnQueryResource(s, t, outcome) ==
    LET t1 == [t EXCEPT !.outcomes = Append(@, outcome)]
    IN Pair(s, Done(t1, IF outcome.ok THEN outcome ELSE Returned("empty")))

\* createSubscription, lines 984-997: the outcome of
\* subscription.createOrUpdate; a failure is rethrown inside a new message,
\* `Failed to create subscription: ${error}`.
OnCreateOrUpdate(s, t, outcome) ==
    LET t1 == [t EXCEPT !.outcomes = Append(@, outcome)]
        prefix == <<"F", "a", "i", "l", "e", "d", " ", "t", "o", " ", "c",
                    "r", "e", "a", "t", "e", " ", "s", "u", "b", "s", "c",
                    "r", "i", "p", "t", "i", "o", "n", ":", " ", "E", "r",
                    "r", "o", "r", ":", " ">>
    IN Pair(s, Done(t1, IF outcome.ok THEN outcome
                        ELSE Failure(prefix \o outcome.error)))

\* Lines 852-871: past the guard, the query is sent.
CallGetModelsFromLogs(p) ==
    /\ p \in Callers
    /\ At(p, "idle")
    /\ service.logsClient # NULL
    /\ service.connection # NULL
    /\ Call(p, Pair(service,
                    [IdleTask EXCEPT !.op = "getModelsFromLogs",
                                     !.pc = "queryResource", !.opCount = 1,
                                     !.tokenType = "logs"]))

QueryResourceReturns(p) ==
    /\ At(p, "queryResource")
    /\ \E outcome \in OperationOutcomes :
           Step(p, OnQueryResource(service, task[p], outcome))

\* Lines 979-994: past the guard, the subscription is sent.
CallCreateSubscription(p) ==
    /\ p \in Callers
    /\ At(p, "idle")
    /\ service.apiManagementClient # NULL
    /\ service.connection # NULL
    /\ Call(p, Pair(service,
                    [IdleTask EXCEPT !.op = "createSubscription",
                                     !.pc = "createOrUpdate", !.opCount = 1,
                                     !.tokenType = "management"]))

CreateOrUpdateReturns(p) ==
    /\ At(p, "createOrUpdate")
    /\ \E outcome \in OperationOutcomes :
           Step(p, OnCreateOrUpdate(service, task[p], outcome))

Next ==
    \/ Tick
    \/ disconnect
    \/ \E p \in Procs : CallGetManagementToken(p)
    \/ \E p \in Procs : ManagementWaitEnds(p)
    \/ \E p \in Procs : ManagementSilentReturns(p)
    \/ \E p \in Procs : ManagementInteractiveReturns(p)
    \/ \E p \in Procs : FreshSessionReturns(p)
    \/ \E p \in Procs : CallGetLogsAccessToken(p)
    \/ \E p \in Procs : LogsWaitEnds(p)
    \/ \E p \in Procs : LogsSilentReturns(p)
    \/ \E p \in Procs : LogsInteractiveReturns(p)
    \/ \E p \in Procs : CallExecuteWithTokenRefresh(p)
    \/ \E p \in Procs : OperationReturns(p)
    \/ \E p \in Procs : RetriedOperationReturns(p)
    \/ \E p \in Procs : connectCommand(p)
    \/ \E p \in Procs : AuthenticateReturns(p)
    \/ \E p \in Procs : TenantsFetchReturns(p)
    \/ \E p \in Procs : TenantPicked(p)
    \/ \E p \in Procs : TenantSessionReturns(p)
    \/ \E p \in Procs : TestFetchReturns(p)
    \/ \E p \in Procs : TenantSession2Returns(p)
    \/ \E p \in Procs : SubsFetchReturns(p)
    \/ \E p \in Procs : SubsFallbackReturns(p)
    \/ \E p \in Procs : ElsewhereFetchReturns(p)
    \/ \E p \in Procs : NoSubsChoiceMade(p)
    \/ \E p \in Procs : SubPicked(p)
    \/ \E p \in Procs : ListServicesReturns(p)
    \/ \E p \in Procs : ApimPicked(p)
    \/ \E p \in Procs : GatewayFetchReturns(p)
    \/ \E p \in Procs : CallGetModelsFromLogs(p)
    \/ \E p \in Procs : QueryResourceReturns(p)
    \/ \E p \in Procs : CallCreateSubscription(p)
    \/ \E p \in Procs : CreateOrUpdateReturns(p)

\* The whole service.  Its state graph is the product of the connect command
\* and the calls; it is explored in parts: the command from construction
\* (SpecConnect), the calls on the service the command leaves connected
\* (SpecTokens, SpecSingleFlight, SpecOutbound; SpecWaiters with every await
\* answered), the end of a second command next to the logs queries
\* (SpecSwitch), and the commands that start disconnected (SpecDisconnected).
Spec == Init /\ [][Next]_vars

\* ----------------------------------------------------------------- the parts
\* The selection flow with the clock and disconnect, from construction.
NextConnect ==
    \/ Tick
    \/ disconnect
    \/ \E p \in Procs : connectCommand(p)
    \/ \E p \in Procs : AuthenticateReturns(p)
    \/ \E p \in Procs : TenantsFetchReturns(p)
    \/ \E p \in Procs : TenantPicked(p)
    \/ \E p \in Procs : TenantSessionReturns(p)
    \/ \E p \in Procs : TestFetchReturns(p)
    \/ \E p \in Procs : TenantSession2Returns(p)
    \/ \E p \in Procs : SubsFetchReturns(p)
    \/ \E p \in Procs : SubsFallbackReturns(p)
    \/ \E p \in Procs : ElsewhereFetchReturns(p)
    \/ \E p \in Procs : NoSubsChoiceMade(p)
    \/ \E p \in Procs : SubPicked(p)
    \/ \E p \in Procs : ListServicesReturns(p)
    \/ \E p \in Procs : ApimPicked(p)
    \/ \E p \in Procs : GatewayFetchReturns(p)
    \/ \E p \in Procs : ManagementSilentReturns(p)
    \/ \E p \in Procs : ManagementInteractiveReturns(p)
    \/ \E p \in Procs : FreshSessionReturns(p)
    \/ \E p \in Procs : LogsSilentReturns(p)
    \/ \E p \in Procs : LogsInteractiveReturns(p)

SpecConnect == Init /\ [][NextConnect]_vars

\* The service as the connect command leaves it when every request is
\* answered and the user picks tenant A and its subscription at time 0:
\* authenticate stored session 1, getTenantSpecificToken pushed the qualifier
\* and got bearer 2 for the fixed credential of lines 494-500, the clients
\* were built around it, refreshLogsToken stored session 3.
ConnectedService ==
    LET scopes == <<ManagementScope, TenantScope("A")>>
        cred == StaticCredential(2)
        mgmt == Session(1, <<ManagementScope>>)
        logs == Session(3, LogsScopes("A"))
        logsCred == [tenantId |-> "A"]
    IN [connection |->
            [tenantId |-> "A", subscriptionId |-> "sub-A",
             resourceGroupName |-> "rg", serviceName |-> "apim",
             accessToken |-> 2],
        apiManagementClient |->
            [credential |-> cred, subscriptionId |-> "sub-A"],
        subscriptionClient |-> [credential |-> cred],
        logsClient |-> [credential |-> logsCred],
        credential |-> cred, logsCredential |-> logsCred,
        managementToken |-> createTokenFromSession(mgmt, 0),
        logsToken |-> createTokenFromSession(logs, 0),
        currentTenantId |-> "A", isRefreshing |-> FALSE,
        managementSession |-> mgmt, logsSession |-> logs,
        requiredScopes |-> scopes]

Connected ==
    /\ now = 0
    /\ service = ConnectedService
    /\ task = [p \in Procs |-> IdleTask]
    /\ calls = 0

\* The calls made on a connected service, with the clock and disconnect.
NextTokens ==
    \/ Tick
    \/ disconnect
    \/ \E p \in Procs : CallGetManagementToken(p)
    \/ \E p \in Procs : ManagementWaitEnds(p)
    \/ \E p \in Procs : ManagementSilentReturns(p)
    \/ \E p \in Procs : ManagementInteractiveReturns(p)
    \/ \E p \in Procs : FreshSessionReturns(p)
    \/ \E p \in Procs : CallGetLogsAccessToken(p)
    \/ \E p \in Procs : LogsWaitEnds(p)
    \/ \E p \in Procs : LogsSilentReturns(p)
    \/ \E p \in Procs : LogsInteractiveReturns(p)
    \/ \E p \in Procs : CallExecuteWithTokenRefresh(p)
    \/ \E p \in Procs : OperationReturns(p)
    \/ \E p \in Procs : RetriedOperationReturns(p)

SpecTokens == Connected /\ [][NextTokens]_vars

\* ------------------------------------------------- the single-flight scenario
\* The connected service after a wrapped call met a 401 at time 0 and
\* getFreshManagementSession stored session 4: the credential and the clients
\* are the refreshing ones.
ManagedService ==
    StoreManagementSession(
        ConnectedService, Session(4, ManagementScopes(ConnectedService)), 0)

\* That service, or that service one refresh window later after a refresh
\* and its fallback were both rejected: the management slot is empty.
Managed ==
    /\ \/ now = 0 /\ service = ManagedService
       \/ now = TickMs /\ service = ManagementRefreshFailed(ManagedService)
    /\ task = [p \in Procs |-> IdleTask]
    /\ calls = 0

\* The provider answers the silent request with a session.
ManagementSilentSucceeds(p) ==
    /\ At(p, "mgmtSilent")
    /\ \E resp \in SessionsFor(service.managementSession) :
           Step(p, OnManagementSilent(service, task[p], resp, now))

\* The provider answers the interactive request with a session.
ManagementInteractiveSucceeds(p) ==
    /\ At(p, "mgmtInteractive")
    /\ \E resp \in SessionsFor(service.managementSession) :
           Step(p, OnManagementInteractive(service, task[p], resp, now))

\* A credential callback that arrives before any of the others has resolved.
ConcurrentCall(p) ==
    /\ \A q \in Callers : task[q].result = NoResult
    /\ CallGetManagementToken(p)

\* Concurrent getManagementToken calls and a provider that grants a session.
NextSingleFlight ==
    \/ Tick
    \/ \E p \in Procs : ConcurrentCall(p)
    \/ \E p \in Procs : ManagementWaitEnds(p)
    \/ \E p \in Procs : ManagementSilentSucceeds(p)
    \/ \E p \in Procs : ManagementInteractiveSucceeds(p)

SpecSingleFlight == Managed /\ [][NextSingleFlight]_vars

\* ---------------------------------------------------------------- properties
\* C1 (SpecSingleFlight): over concurrent getManagementToken calls on a slot
\* that needs a refresh, with a provider that grants sessions, at most one
\* call makes the silent request, at most one the interactive request, none
\* makes any other request, and all calls resolve to the same token.
C1_SingleFlight ==
    /\ Cardinality({p \in Callers : "mgmtSilent" \in task[p].made}) <= 1
    /\ Cardinality({p \in Callers : "mgmtInteractive" \in task[p].made}) <= 1
    /\ \A p \in Callers : task[p].made \subseteq {"mgmtSilent", "mgmtInteractive"}
    /\ \A p, q \in Callers :
          task[p].result # NoResult /\ task[q].result # NoResult
          => /\ task[p].result.ok
             /\ "token" \in DOMAIN task[p].result.value
             /\ task[p].result = task[q].result

\* Two calls found the slot in need of a refresh, one made both requests,
\* the other waited, and both resolved.
C1_Witness ==
    \E p, q \in Callers :
        /\ p # q
        /\ task[p].result # NoResult /\ task[q].result # NoResult
        /\ task[p].found \in {"absent", "soft", "hard"}
        /\ task[q].found \in {"absent", "soft", "hard"}
        /\ task[p].made = {"mgmtSilent", "mgmtInteractive"}
        /\ task[q].made = {}

\* C2 (SpecTokens): at every instant at most one getSession request for the
\* management slot is outstanding, the requests of getFreshManagementSession
\* included.
C2_OneOutstandingRequest ==
    Cardinality({p \in Procs :
                    task[p].pc \in {"mgmtSilent", "mgmtInteractive",
                                    "mgmtFresh"}}) <= 1

\* C3 (SpecTokens): a call of executeWithTokenRefresh invokes operation at
\* most twice; the outcome of the second invocation is the result of the call,
\* and the step that receives it makes no request and changes nothing of the
\* service.
C3_RetryOnce ==
    /\ [](\A p \in Procs :
            task[p].op = "executeWithTokenRefresh"
            => /\ task[p].opCount <= 2
               /\ Len(task[p].outcomes) <= task[p].opCount
               /\ (task[p].pc = "idle" /\ Len(task[p].outcomes) = 2
                   => task[p].result = task[p].outcomes[2]))
    /\ [][\A p \in Procs :
            task[p].pc = "op2" /\ task'[p] # task[p]
            => /\ task'[p].pc = "idle"
               /\ task'[p].opCount = 2
               /\ task'[p].made = task[p].made
               /\ service' = service]_vars

\* A wrapped call whose two invocations both failed with a 401 ended with
\* the second failure.
C3_Witness ==
    \E p \in Procs :
        /\ task[p].op = "executeWithTokenRefresh"
        /\ task[p].pc = "idle"
        /\ task[p].outcomes = <<Failure(Error401), Failure(Error401)>>
        /\ task[p].result = Failure(Error401)
        /\ task[p].opCount = 2

\* C4 (SpecTokens): when the first operation() fails with an error that
\* lines 243-246 do not classify as token expiry, the call ends in that step
\* with that error, after one invocation, without a request, and the service
\* is unchanged.
C4_NonAuthPassthrough ==
    [][\A p \in Procs :
          (/\ task[p].pc = "op1"
           /\ Len(task'[p].outcomes) = 1
           /\ ~task'[p].outcomes[1].ok
           /\ ~IsTokenExpiryError(task'[p].outcomes[1].error))
          => /\ task'[p].pc = "idle"
             /\ task'[p].result = task'[p].outcomes[1]
             /\ task'[p].opCount = 1
             /\ task'[p].made = {}
             /\ service' = service]_vars

\* A wrapped call ended with the 500 its only invocation failed with.
C4_Witness ==
    \E p \in Procs :
        /\ task[p].op = "executeWithTokenRefresh"
        /\ task[p].pc = "idle"
        /\ task[p].outcomes = <<Failure(Error500)>>
        /\ task[p].result = Failure(Error500)
        /\ task[p].made = {}

C6_ExpiredAndRefreshFailed ==
    \A p \in Callers :
        (/\ task[p].pc = "idle"
         /\ task[p].found = "hard"
         /\ task[p].made # {}
         /\ task[p].result # NoResult
         /\ ~task[p].result.ok)
        => task[p].result.error \in
               {ManagementTokenExpiredError, LogsTokenExpiredError}

\* C7 (SpecTokens): the step in which refreshManagementToken or
\* refreshLogsToken fails leaves the slot's token as it was.
C7_FailedRefreshKeepsToken ==
    [][\A p \in Procs :
          /\ (/\ task[p].pc \in {"mgmtSilent", "mgmtInteractive"}
              /\ task'[p].pc = "mgmtFresh")
             => service'.managementToken = service.managementToken
          /\ (/\ task[p].pc \in {"logsSilent", "logsInteractive"}
              /\ task'[p].pc = "idle"
              /\ ~task'[p].result.ok)
             => service'.logsToken = service.logsToken]_vars

\* C8 (SpecTokens): when a getManagementToken call that was inside its
\* refresh at disconnect has resolved with a token, the management slot, its
\* session record and the credential are absent.
C8_LateResultDiscarded ==
    \A p \in Procs :
        (/\ task[p].cancelled
         /\ task[p].op = "getManagementToken"
         /\ task[p].pc = "idle"
         /\ task[p].result.ok)
        => /\ service.managementToken = NULL
           /\ service.managementSession = NULL
           /\ service.credential = NULL

\* C9 (SpecTokens): disconnect with no refresh in flight leaves both tokens
\* and both session records absent.
C9_DisconnectClearsSlots ==
    [][(/\ service.connection # NULL
        /\ service'.connection = NULL
        /\ \A p \in Procs : task[p].pc \notin RefreshPcs)
       => /\ service'.managementToken = NULL
          /\ service'.logsToken = NULL
          /\ service'.managementSession = NULL
          /\ service'.logsSession = NULL]_vars

\* C10 (SpecConnect): the step of the selection flow that replaces the
\* connection by one of another tenant leaves both slots empty.
C10_TenantSwitchClearsSlots ==
    [][(/\ service.connection # NULL
        /\ service'.connection # NULL
        /\ service'.connection.tenantId # service.connection.tenantId)
       => /\ service'.managementToken = NULL
          /\ service'.logsToken = NULL]_vars

\* C11 (SpecConnect): while a connection on one tenant is held and the
\* selection flow has picked another tenant, every scope list the flow sends
\* with a getSession request holds the qualifier of the picked tenant and not
\* the qualifier of the connection's tenant.
C11_TenantQualifiedScopes ==
    \A p \in Procs :
        (/\ task[p].pc \in {"tenantSession", "tenantSession2", "mgmtSilent",
                            "mgmtInteractive", "mgmtFresh"}
         /\ task[p].selectedTenantId # NoTenant
         /\ service.connection # NULL
         /\ service.connection.tenantId # task[p].selectedTenantId)
        => /\ \E i \in 1..Len(task[p].scopes) :
                  task[p].scopes[i] = TenantScope(task[p].selectedTenantId)
           /\ \A i \in 1..Len(task[p].scopes) :
                  task[p].scopes[i] # TenantScope(service.connection.tenantId)

\* ------------------------------------------------------- the tenant switch
\* The connected service with the connect command run a second time, the
\* user having picked tenant B and its subscription: authenticate got the
\* session it held again, getTenantSpecificToken pushed B's qualifier and got
\* bearer 4 for the fixed credential, the clients were rebuilt around it, and
\* the command awaits the gateway URL (line 676) before it stores the
\* connection.
SwitchingService ==
    LET cred == StaticCredential(4)
    IN [ConnectedService EXCEPT
           !.managementSession =
               Session(1, <<ManagementScope, TenantScope("A")>>),
           !.requiredScopes =
               <<ManagementScope, TenantScope("A"), TenantScope("B")>>,
           !.credential = cred,
           !.subscriptionClient = [credential |-> cred],
           !.apiManagementClient =
               [credential |-> cred, subscriptionId |-> "sub-B"]]

SwitchingTask ==
    [IdleTask EXCEPT !.op = "connect", !.pc = "gatewayFetch",
                     !.site = "gateway", !.made = {"auth", "tenantSession"},
                     !.selectedTenantId = "B", !.tokenResponse = 4,
                     !.selectedSub =
                         [subscriptionId |-> "sub-B", tenantId |-> "B"]]

Switching ==
    /\ now = 0
    /\ service = SwitchingService
    /\ task = [p \in Procs |-> IF p = Command THEN SwitchingTask ELSE IdleTask]
    /\ calls = 0

\* The end of the selection flow next to the queries of the logs client the
\* first connection built.
NextSwitch ==
    \/ Tick
    \/ \E p \in Procs : GatewayFetchReturns(p)
    \/ \E p \in Procs : CallGetLogsAccessToken(p)
    \/ \E p \in Procs : LogsWaitEnds(p)
    \/ \E p \in Procs : LogsSilentReturns(p)
    \/ \E p \in Procs : LogsInteractiveReturns(p)

SpecSwitch == Switching /\ [][NextSwitch]_vars

\* C12 (SpecSwitch): the step in which getLogsAccessToken(T) returns a token
\* returns the token of the logs session held, and that session was asked
\* for with the scope list of tenant T.
C12_TenantIsolation ==
    [][\A p \in Callers :
          (/\ task'[p] # task[p]
           /\ task'[p].op = "getLogsAccessToken"
           /\ task'[p].pc = "idle"
           /\ task'[p].result.ok)
          => /\ service'.logsSession # NULL
             /\ service'.logsSession.accessToken = task'[p].result.value.token
             /\ service'.logsSession.scopes = LogsScopes(task'[p].tenantId)]_vars

\* C13 (SpecTokens): wherever a refresh awaits its silent request, an answer
\* that is nothing or a session with the access token of the slot's session
\* leads to the interactive request and leaves the service as it is, and a
\* session with another access token is stored without an interactive
\* request; wherever a refresh awaits its interactive request, no answer
\* leads to another interactive request, and a session is stored.
C13_SameSessionEscalation ==
    \A p \in Procs :
        /\ task[p].pc = "mgmtSilent" =>
             \A resp \in SessionsFor(service.managementSession) \cup {NoSession} :
                LET r == OnManagementSilent(service, task[p], resp, now)
                    same == \/ resp.kind = "none"
                            \/ resp.accessToken
                                   \in BearerOf(service.managementSession)
                IN IF same
                   THEN /\ r.t.pc = "mgmtInteractive"
                        /\ r.t.made = task[p].made \cup {"mgmtInteractive"}
                        /\ r.svc = service
                   ELSE /\ r.t.pc # "mgmtInteractive"
                        /\ r.t.made = task[p].made
                        /\ r.svc.managementSession.accessToken = resp.accessToken
                        /\ r.svc.managementToken.token = resp.accessToken
        /\ task[p].pc = "logsSilent" =>
             \A resp \in SessionsFor(service.logsSession) \cup {NoSession} :
                LET r == OnLogsSilent(service, task[p], resp, now)
                    same == \/ resp.kind = "none"
                            \/ resp.accessToken \in BearerOf(service.logsSession)
                IN IF same
                   THEN /\ r.t.pc = "logsInteractive"
                        /\ r.t.made = task[p].made \cup {"logsInteractive"}
                        /\ r.svc = service
                   ELSE /\ r.t.pc # "logsInteractive"
                        /\ r.t.made = task[p].made
                        /\ r.svc.logsSession.accessToken = resp.accessToken
                        /\ r.svc.logsToken.token = resp.accessToken
        /\ task[p].pc = "mgmtInteractive" =>
             \A resp \in AllResponses(service.managementSession) :
                LET r == OnManagementInteractive(service, task[p], resp, now)
                IN /\ r.t.pc # "mgmtInteractive"
                   /\ "mgmtInteractive" \in task[p].made
                   /\ resp.kind = "session"
                      => /\ r.t.made = task[p].made
                         /\ r.svc.managementToken.token = resp.accessToken
        /\ task[p].pc = "logsInteractive" =>
             \A resp \in AllResponses(service.logsSession) :
                LET r == OnLogsInteractive(service, task[p], resp, now)
                IN /\ r.t.pc # "logsInteractive"
                   /\ "logsInteractive" \in task[p].made
                   /\ resp.kind = "session"
                      => /\ r.t.made = task[p].made
                         /\ r.svc.logsToken.token = resp.accessToken

\* A getManagementToken call whose refresh made the silent and then the
\* interactive request has returned the token of the session stored.
C13_Witness ==
    \E p \in Callers :
        /\ task[p].op = "getManagementToken"
        /\ task[p].pc = "idle"
        /\ task[p].made = {"mgmtSilent", "mgmtInteractive"}
        /\ task[p].result = Value(service.managementToken)
        /\ service.managementToken.token = service.managementSession.accessToken

\* C14 (SpecTokens): the step in which getManagementToken or
\* getLogsAccessToken returns a token returns one whose expiresOnTimestamp
\* lies after the time of that step.
C14_NoExpiredTokenReturned ==
    [][\A p \in Callers :
          (/\ task'[p] # task[p]
           /\ task'[p].op \in {"getManagementToken", "getLogsAccessToken"}
           /\ task'[p].pc = "idle"
           /\ task'[p].result.ok)
          => task'[p].result.value.expiresOnTimestamp > now']_vars

\* C15 (SpecTokens): a call of executeWithTokenRefresh that ended after one
\* operation() that failed with a token-expiry error, the refresh having
\* failed, carries an error whose message holds the message of the
\* operation's failure, and operation() was invoked once.
C15_OriginalFailurePropagated ==
    \A p \in Procs :
        (/\ task[p].op = "executeWithTokenRefresh"
         /\ task[p].pc = "idle"
         /\ Len(task[p].outcomes) = 1
         /\ ~task[p].outcomes[1].ok
         /\ IsTokenExpiryError(task[p].outcomes[1].error))
        => /\ task[p].opCount = 1
           /\ ~task[p].result.ok
           /\ includes(task[p].result.error, task[p].outcomes[1].error)

\* C16 (SpecTokens): the step in which executeWithTokenRefresh invokes
\* operation() for the second time resumes from the refresh of the slot of
\* its tokenType, and that slot then holds the token of a session stored
\* since the clock last moved: for 'management' the step is the one in which
\* getFreshManagementSession stored it.
C16_RetryAfterRefresh ==
    [][\A p \in Procs :
          (/\ task[p].op = "executeWithTokenRefresh"
           /\ task[p].pc # "op2"
           /\ task'[p].pc = "op2")
          => IF task[p].tokenType = "management"
             THEN /\ task[p].pc = "mgmtFresh"
                  /\ service'.managementToken # NULL
                  /\ service'.managementToken =
                         createTokenFromSession(service'.managementSession, now)
             ELSE /\ task[p].pc \in {"logsSilent", "logsInteractive", "logsWait"}
                  /\ service'.logsToken # NULL
                  /\ service'.logsToken =
                         createTokenFromSession(service'.logsSession, now)]_vars

\* ------------------------------------------------------- the unwrapped calls
\* The log queries and createSubscription on a connected service, with the
\* clock and disconnect.
NextOutbound ==
    \/ Tick
    \/ disconnect
    \/ \E p \in Procs : CallGetModelsFromLogs(p)
    \/ \E p \in Procs : QueryResourceReturns(p)
    \/ \E p \in Procs : CallCreateSubscription(p)
    \/ \E p \in Procs : CreateOrUpdateReturns(p)

SpecOutbound == Connected /\ [][NextOutbound]_vars

\* C17 (SpecOutbound): a log query or a createSubscription whose remote call
\* failed with a token-expiry error has ended after a refresh request and a
\* second remote call, whose outcome it returns.
C17_EveryCallWrapped ==
    \A p \in Procs :
        (/\ task[p].op \in {"getModelsFromLogs", "createSubscription"}
         /\ task[p].pc = "idle"
         /\ task[p].outcomes # <<>>
         /\ ~task[p].outcomes[1].ok
         /\ IsTokenExpiryError(task[p].outcomes[1].error))
        => /\ Len(task[p].outcomes) = 2
           /\ task[p].opCount = 2
           /\ task[p].made # {}
           /\ task[p].result = task[p].outcomes[2]

\* C18 (SpecConnect): when the connect command has returned true, the
\* credential the management clients were built around is the one whose
\* getToken is getManagementToken (lines 53-57).
C18_ManagedCredentialAfterConnect ==
    (/\ task[Command].op = "connect"
     /\ task[Command].pc = "idle"
     /\ task[Command].result = Returned("true")
     /\ service.apiManagementClient # NULL
     /\ service.subscriptionClient # NULL)
    => /\ service.apiManagementClient.credential = ManagedCredential
       /\ service.subscriptionClient.credential = ManagedCredential

\* C19 (SpecTokens): every token held in a slot has its expiresOnTimestamp
\* 60 minutes and its refreshAfterTimestamp 30 minutes after one same
\* instant, so refreshAfterTimestamp <= expiresOnTimestamp; and a step that
\* changes a slot either empties it or puts there the token made at that
\* time from the slot's new session: a token held is never altered in part.
C19_TokenWindow ==
    /\ [](\A tok \in {service.managementToken, service.logsToken} :
            tok # NULL
            => /\ tok.refreshAfterTimestamp <= tok.expiresOnTimestamp
               /\ tok.expiresOnTimestamp >= 60 * 60 * 1000
               /\ tok.refreshAfterTimestamp + 30 * 60 * 1000
                      = tok.expiresOnTimestamp)
    /\ [][/\ (/\ service'.managementToken # service.managementToken
              /\ service'.managementToken # NULL)
             => /\ service'.managementToken.token
                       = service'.managementSession.accessToken
                /\ service'.managementToken.expiresOnTimestamp
                       = now + 60 * 60 * 1000
                /\ service'.managementToken.refreshAfterTimestamp
                       = now + 30 * 60 * 1000
          /\ (/\ service'.logsToken # service.logsToken
              /\ service'.logsToken # NULL)
             => /\ service'.logsToken.token = service'.logsSession.accessToken
                /\ service'.logsToken.expiresOnTimestamp = now + 60 * 60 * 1000
                /\ service'.logsToken.refreshAfterTimestamp
                       = now + 30 * 60 * 1000]_vars

\* A refresh made after the clock had moved has replaced the logs token, and
\* the call that made it returned the new token.
C19_Witness ==
    \E p \in Callers :
        /\ task[p].pc = "idle"
        /\ task[p].op = "getLogsAccessToken"
        /\ task[p].made # {}
        /\ now > 0
        /\ task[p].result = Value(service.logsToken)
        /\ service.logsToken.expiresOnTimestamp = now + 60 * 60 * 1000

\* C20 (SpecTokens): a getManagementToken call that finds its slot empty or
\* past refreshAfterTimestamp while no refresh of the management slot is in
\* flight starts one with the silent request, whatever the logs slot is
\* doing; and likewise getLogsAccessToken while no refresh of the logs slot
\* is in flight.
C20_IndependentSlots ==
    [][\A p \in Callers :
          /\ (/\ task[p].pc = "idle"
              /\ task'[p] # task[p]
              /\ task'[p].op = "getManagementToken"
              /\ task'[p].found \in {"absent", "soft", "hard"}
              /\ \A q \in Procs :
                     task[q].pc \notin {"mgmtSilent", "mgmtInteractive"})
             => task'[p].pc = "mgmtSilent"
          /\ (/\ task[p].pc = "idle"
              /\ task'[p] # task[p]
              /\ task'[p].op = "getLogsAccessToken"
              /\ task'[p].found \in {"absent", "soft", "hard"}
              /\ \A q \in Procs :
                     task[q].pc \notin {"logsSilent", "logsInteractive"})
             => task'[p].pc = "logsSilent"]_vars

\* C21 (SpecTokens): a getManagementToken call that finds a token before
\* refreshAfterTimestamp, and a getLogsAccessToken call that finds one for
\* the tenant of currentTenantId, ends in the step of the call with the
\* token of the slot, has made no getSession request, and leaves every field
\* of the service as it was.
C21_FastPathNoEffect ==
    [][\A p \in Callers :
          /\ (/\ task[p].pc = "idle"
              /\ task'[p] # task[p]
              /\ task'[p].op = "getManagementToken"
              /\ task'[p].found = "fresh")
             => /\ task'[p].pc = "idle"
                /\ task'[p].result = Value(service.managementToken)
                /\ task'[p].made = {}
                /\ service' = service
          /\ (/\ task[p].pc = "idle"
              /\ task'[p] # task[p]
              /\ task'[p].op = "getLogsAccessToken"
              /\ task'[p].found = "fresh"
              /\ task'[p].tenantId = service.currentTenantId)
             => /\ task'[p].pc = "idle"
                /\ task'[p].result = Value(service.logsToken)
                /\ task'[p].made = {}
                /\ service' = service]_vars

\* A getManagementToken call that found a token before its
\* refreshAfterTimestamp has returned it without a request.
C21_Witness ==
    \E p \in Callers :
        /\ task[p].op = "getManagementToken"
        /\ task[p].pc = "idle"
        /\ task[p].found = "fresh"
        /\ task[p].made = {}
        /\ task[p].result = Value(service.managementToken)

\* C22 (SpecTokens): a getManagementToken call that finds a token past
\* refreshAfterTimestamp and before expiresOnTimestamp while another caller
\* awaits the silent or interactive request of a refresh of the management
\* slot ends in the step of the call with the token of the slot; and
\* likewise getLogsAccessToken and the logs slot.
C22_StaleTokenWithoutWaiting ==
    [][\A p \in Callers :
          /\ (/\ task[p].pc = "idle"
              /\ task'[p] # task[p]
              /\ task'[p].op = "getManagementToken"
              /\ task'[p].found = "soft"
              /\ \E q \in Procs \ {p} :
                     task[q].pc \in {"mgmtSilent", "mgmtInteractive"})
             => /\ task'[p].pc = "idle"
                /\ task'[p].result = Value(service.managementToken)
          /\ (/\ task[p].pc = "idle"
              /\ task'[p] # task[p]
              /\ task'[p].op = "getLogsAccessToken"
              /\ task'[p].found = "soft"
              /\ \E q \in Procs \ {p} :
                     task[q].pc \in {"logsSilent", "logsInteractive"})
             => /\ task'[p].pc = "idle"
                /\ task'[p].result = Value(service.logsToken)]_vars

\* C23 (SpecTokens): a getManagementToken or getLogsAccessToken call that
\* found a token before expiresOnTimestamp and waited for the refresh of
\* another caller resolves with a token when its wait ends, whether that
\* refresh stored a session or failed.
C23_WaiterDoesNotFail ==
    [][\A p \in Callers :
          (/\ task[p].pc \in {"mgmtWait", "logsWait"}
           /\ task[p].op \in {"getManagementToken", "getLogsAccessToken"}
           /\ task[p].found \in {"fresh", "soft"}
           /\ task'[p].pc = "idle")
          => /\ task'[p].result.ok
             /\ "token" \in DOMAIN task'[p].result.value]_vars

\* C24 (SpecTokens): the step in which executeWithTokenRefresh meets a
\* token-expiry failure of its first operation() issues a getSession request
\* that is not silent and clears the session preference, and the call has
\* made no silent request, for 'management' and for 'logs'.
C24_ForcedRefreshSkipsSilent ==
    [][\A p \in Procs :
          (/\ task[p].op = "executeWithTokenRefresh"
           /\ task[p].pc = "op1"
           /\ task'[p].pc # "op1"
           /\ ~task'[p].outcomes[1].ok
           /\ IsTokenExpiryError(task'[p].outcomes[1].error))
          => /\ task'[p].pc \in RefreshPcs
             /\ ~RequestOptions[task'[p].pc].silent
             /\ RequestOptions[task'[p].pc].createIfNone
             /\ RequestOptions[task'[p].pc].clearSessionPreference
             /\ task'[p].made \cap {"mgmtSilent", "logsSilent"} = {}]_vars

\* ------------------------------------------------------------ the schedule
\* Whatever task p awaits arrives: the provider answers its getSession
\* request, the remote operation returns or throws, and the timer of its
\* poll (lines 70 and 307) fires.
Resume(p) ==
    \/ ManagementWaitEnds(p)
    \/ ManagementSilentReturns(p)
    \/ ManagementInteractiveReturns(p)
    \/ FreshSessionReturns(p)
    \/ LogsWaitEnds(p)
    \/ LogsSilentReturns(p)
    \/ LogsInteractiveReturns(p)
    \/ OperationReturns(p)
    \/ RetriedOperationReturns(p)

\* The calls on a connected service, with the clock; disconnect is left out,
\* it writes neither isRefreshing nor the position of a task (lines 759-765).
NextWaiters ==
    \/ Tick
    \/ \E p \in Procs : CallGetManagementToken(p)
    \/ \E p \in Procs : ManagementWaitEnds(p)
    \/ \E p \in Procs : ManagementSilentReturns(p)
    \/ \E p \in Procs : ManagementInteractiveReturns(p)
    \/ \E p \in Procs : FreshSessionReturns(p)
    \/ \E p \in Procs : CallGetLogsAccessToken(p)
    \/ \E p \in Procs : LogsWaitEnds(p)
    \/ \E p \in Procs : LogsSilentReturns(p)
    \/ \E p \in Procs : LogsInteractiveReturns(p)
    \/ \E p \in Procs : CallExecuteWithTokenRefresh(p)
    \/ \E p \in Procs : OperationReturns(p)
    \/ \E p \in Procs : RetriedOperationReturns(p)

\* Those calls under that schedule.
SpecWaiters ==
    Connected /\ [][NextWaiters]_vars /\ \A p \in Callers : WF_vars(Resume(p))

\* The section between the assignments isRefreshing = true (lines 75, 312)
\* and the finally blocks (lines 123-125, 348-350).
GuardedPcs == {"mgmtSilent", "mgmtInteractive", "logsSilent", "logsInteractive"}

\* C25 (SpecWaiters): the step in which a task leaves the section guarded
\* by isRefreshing, with a session stored or with a failure, leaves
\* isRefreshing false; and every call that polls on isRefreshing eventually
\* stops polling and ends.
C25_WaitersEnd ==
    /\ [][\A p \in Procs :
            (task[p].pc \in GuardedPcs /\ task'[p].pc \notin GuardedPcs)
            => ~service'.isRefreshing]_vars
    /\ \A p \in Callers :
          (task[p].pc \in {"mgmtWait", "logsWait"}) ~> (task[p].pc = "idle")

\* A call that polled on isRefreshing while another task was inside a
\* refresh has ended.
C25_Witness ==
    \E p, q \in Callers :
        /\ p # q
        /\ task[p].pc = "idle"
        /\ task[p].op \in {"getManagementToken", "getLogsAccessToken"}
        /\ task[p].found \in {"absent", "soft", "hard"}
        /\ task[p].made = {}
        /\ task[p].result # NoResult
        /\ task[q].made # {}
        /\ ~service.isRefreshing

\* C26 (SpecConnect): wherever the selection flow awaits the subscriptions,
\* an answer that leaves no subscription of the picked tenant does not end
\* the flow but leads to the user's choice; there 'Select Different Tenant'
\* puts the flow, with no result yet and no tenant picked, at the
\* enumeration of the tenants (or ends it as its first statement does when
\* the credential is gone), and 'Cancel' ends it with false.
C26_NoSubscriptionsLoop ==
    LET t == task[Command]
        Asking == {"elsewhereFetch", "noSubsChoice"}
    IN /\ t.pc = "subsFetch" =>
            OnSubsFetch(service, t, [kind |-> "ok", value |-> {}], now).t.pc
                \in Asking
       /\ t.pc = "subsFallback" =>
            \A resp \in SubscriptionsResponses :
                (/\ resp.kind = "ok"
                 /\ \A sub \in resp.value : sub.tenantId # t.selectedTenantId)
                => OnSubsFallback(service, t, resp, now).t.pc \in Asking
       /\ t.pc = "elsewhereFetch" =>
            OnElsewhereFetch(service, t).t.pc = "noSubsChoice"
       /\ t.pc = "noSubsChoice" =>
            LET again == OnNoSubsChoice(service, t, "Select Different Tenant",
                                        now)
                cancel == OnNoSubsChoice(service, t, "Cancel", now)
            IN /\ service.credential # NULL
                  => /\ again.t.pc = "tenantsFetch"
                     /\ again.t.result = NoResult
                     /\ again.t.selectedTenantId = NoTenant
                     /\ again.svc = service
               /\ service.credential = NULL
                  => /\ again.t.pc = "idle"
                     /\ again.t.result = Returned("false")
               /\ cancel.t.pc = "idle"
               /\ cancel.t.result = Returned("false")
               /\ cancel.svc = service

\* The flow is at the enumeration of the tenants for the second time in one
\* command: it has already asked for a tenant's session.
C26_Witness ==
    /\ task[Command].op = "connect"
    /\ task[Command].pc = "tenantsFetch"
    /\ "tenantSession" \in task[Command].made
    /\ task[Command].selectedTenantId = NoTenant

\* C27 (SpecConnect): every subscription the selection flow offers to the
\* user is one of the tenant the user picked, and when the flow has returned
\* true the connection it stored and the logs credential it built carry that
\* tenant.
C27_SubscriptionsOfSelectedTenant ==
    LET t == task[Command]
    IN /\ t.pc = "pickSub" =>
            \A sub \in t.subscriptions : sub.tenantId = t.selectedTenantId
       /\ (/\ t.op = "connect"
           /\ t.pc = "idle"
           /\ t.result = Returned("true")
           /\ service.connection # NULL)
          => /\ service.connection.tenantId = t.selectedTenantId
             /\ service.logsCredential.tenantId = t.selectedTenantId

\* C28 (SpecTokens): at most one task is between the assignment
\* isRefreshing = true and the finally block of refreshManagementToken or
\* refreshLogsToken, and isRefreshing is true exactly when a task is there.
C28_MutualExclusion ==
    /\ Cardinality({p \in Procs : task[p].pc \in GuardedPcs}) <= 1
    /\ service.isRefreshing <=> \E p \in Procs : task[p].pc \in GuardedPcs

\* A refresh of the logs slot is inside the section while a
\* getManagementToken call that needs a refresh is kept out and polls.
C28_Witness ==
    \E p, q \in Callers :
        /\ p # q
        /\ task[p].pc \in {"logsSilent", "logsInteractive"}
        /\ task[q].pc = "mgmtWait"
        /\ service.isRefreshing

\* C29 (SpecTokens): managementToken and managementSession are both absent,
\* or both present with the token's bearer equal to the session's
\* accessToken; likewise logsToken and logsSession; and a logs token held is
\* that of a session asked for with the scope list of currentTenantId.
C29_TokenMatchesSession ==
    /\ service.managementToken = NULL <=> service.managementSession = NULL
    /\ service.managementToken # NULL
       => service.managementToken.token = service.managementSession.accessToken
    /\ service.logsToken = NULL <=> service.logsSession = NULL
    /\ service.logsToken # NULL
       => /\ service.logsToken.token = service.logsSession.accessToken
          /\ service.currentTenantId # NoTenant
          /\ service.logsSession.scopes = LogsScopes(service.currentTenantId)

\* A failed refresh has emptied the management slot and its session record,
\* and a refresh has replaced the logs session and its token.
C29_Witness ==
    /\ service.managementToken = NULL
    /\ service.managementSession = NULL
    /\ service.logsToken # NULL
    /\ service.logsSession # ConnectedService.logsSession
    /\ service.logsToken.token = service.logsSession.accessToken

\* ------------------------------------------------- the command when disconnected
\* Lines 767-769.
isConnected(s) == s.connection # NULL /\ s.apiManagementClient # NULL

\* The connect command run on a service that is not connected.
ConnectWhenDisconnected(p) ==
    /\ ~isConnected(service)
    /\ connectCommand(p)

\* The selection flow, the clock and disconnect, every command starting on a
\* disconnected service.
NextDisconnected ==
    \/ Tick
    \/ disconnect
    \/ \E p \in Procs : ConnectWhenDisconnected(p)
    \/ \E p \in Procs : AuthenticateReturns(p)
    \/ \E p \in Procs : TenantsFetchReturns(p)
    \/ \E p \in Procs : TenantPicked(p)
    \/ \E p \in Procs : TenantSessionReturns(p)
    \/ \E p \in Procs : TestFetchReturns(p)
    \/ \E p \in Procs : TenantSession2Returns(p)
    \/ \E p \in Procs : SubsFetchReturns(p)
    \/ \E p \in Procs : SubsFallbackReturns(p)
    \/ \E p \in Procs : ElsewhereFetchReturns(p)
    \/ \E p \in Procs : NoSubsChoiceMade(p)
    \/ \E p \in Procs : SubPicked(p)
    \/ \E p \in Procs : ListServicesReturns(p)
    \/ \E p \in Procs : ApimPicked(p)
    \/ \E p \in Procs : GatewayFetchReturns(p)
    \/ \E p \in Procs : ManagementSilentReturns(p)
    \/ \E p \in Procs : ManagementInteractiveReturns(p)
    \/ \E p \in Procs : FreshSessionReturns(p)
    \/ \E p \in Procs : LogsSilentReturns(p)
    \/ \E p \in Procs : LogsInteractiveReturns(p)

SpecDisconnected == Init /\ [][NextDisconnected]_vars

\* C30 (SpecDisconnected): the step in which selectTenantAndSubscription,
\* started on a disconnected service, returns true leaves isConnected() true,
\* and the step in which it returns false leaves isConnected() false.
C30_ResultMatchesConnection ==
    [][(/\ task[Command].op = "connect"
        /\ task[Command].pc # "idle"
        /\ task'[Command].pc = "idle")
       => /\ task'[Command].result = Returned("true") => isConnected(service')
          /\ task'[Command].result = Returned("false")
             => ~isConnected(service')]_vars
====
